---- MODULE Spec2Model ----
(***************************************************************************)
(* The mock transport (MockTransport) and the store bridge (useAppStore)   *)
(* of babble, as a state machine.                                          *)
(*                                                                         *)
(* JavaScript runs one task at a time.  A task is a call made by the UI    *)
(* (a transport command, a store command, subscribe, an unsubscribe        *)
(* capability) or the firing of the connect timer.  Every command body is  *)
(* synchronous (the async functions contain no await), but update() calls  *)
(* the listeners, and a listener may call back into the transport before   *)
(* it returns.  The call stack of the running task is therefore part of    *)
(* the state: one frame per update() pass in progress and one frame per    *)
(* subscribe() call whose immediate callback has not returned.             *)
(***************************************************************************)
EXTENDS Integers, Sequences, FiniteSets, TLC

\* ---------------------------------------------------------------- bounds
NumListeners == 2      \* listener functions other than the store's
MaxNested == 1         \* calls made from inside callbacks, per task
MaxTimers == 2         \* distinct timer handles told apart

\* ---------------------------------------------------------------- inputs
Servers == {"a", "b"}
ChannelArgs == {2, 4}          \* an existing channel and a missing one
Listeners == 1..NumListeners
StoreListener == 0             \* the callback installed by useAppStore
AllListeners == {StoreListener} \cup Listeners

Undefined == "undefined"       \* an optional field that is not present
None == -1                     \* no listener
Empty == -2                    \* a Set entry deleted during an iteration

\* ------------------------------------------------------ initial contents
defaultChannels ==
    << [id |-> 1, name |-> "Lobby"],
       [id |-> 2, name |-> "Gaming"],
       [id |-> 3, name |-> "AFK"] >>

defaultUsers ==
    << [id |-> 1, name |-> "You", channelId |-> 1, talking |-> Undefined,
        muted |-> Undefined, deafened |-> Undefined],
       [id |-> 2, name |-> "Alex", channelId |-> 1, talking |-> "true",
        muted |-> Undefined, deafened |-> Undefined],
       [id |-> 3, name |-> "Sam", channelId |-> 2, talking |-> Undefined,
        muted |-> Undefined, deafened |-> Undefined] >>

InitialState ==
    [connState |-> "disconnected",
     currentServer |-> Undefined,
     currentChannelId |-> 1,
     me |-> [muted |-> FALSE, deafened |-> FALSE],
     channels |-> defaultChannels,
     users |-> defaultUsers]

\* Optional boolean flags of a user are kept as "true" / "false" / Undefined.
Flag(b) == IF b THEN "true" ELSE "false"

\* ------------------------------------------------------- object spreading
\* { ...a, ...b }: every key of b overrides the key of a.
Merge(a, b) ==
    [k \in (DOMAIN a) \cup (DOMAIN b) |-> IF k \in DOMAIN b THEN b[k] ELSE a[k]]

\* snapshot(): a copy of the state with me, channels and users copied.
snapshot(st) ==
    Merge(st, [me |-> [muted |-> st.me.muted, deafened |-> st.me.deafened],
               channels |-> [i \in DOMAIN st.channels |-> st.channels[i]],
               users |-> [i \in DOMAIN st.users |-> st.users[i]]])

\* ------------------------------------------- Set<TransportListener> model
\* A JavaScript Set keeps insertion order.  forEach walks the entry list by
\* position and reads it live: an entry deleted before it is reached is
\* skipped, an entry added during the walk is reached.  A deleted entry
\* keeps its position (as Empty) while a walk is in progress.
SetHas(ls, l) == \E i \in DOMAIN ls : ls[i] = l

SetAdd(ls, l) == IF SetHas(ls, l) THEN ls ELSE Append(ls, l)

\* A delete that a walk in progress does not see.
SetDelete_deferred(ls, l, iterating) ==
    IF iterating THEN ls ELSE SelectSeq(ls, LAMBDA x : x # l)

SetDelete(ls, l, iterating) ==
    IF iterating
    THEN [i \in DOMAIN ls |-> IF ls[i] = l THEN Empty ELSE ls[i]]
    ELSE SelectSeq(ls, LAMBDA x : x # l)

Compact(ls) == SelectSeq(ls, LAMBDA x : x # Empty)

Registered(ls) == {ls[i] : i \in DOMAIN ls} \ {Empty}

\* The position of the next entry a walk standing at idx visits, 0 if none.
NextIdx(ls, idx) ==
    LET live == {i \in DOMAIN ls : i >= idx /\ ls[i] # Empty}
    IN IF live = {} THEN 0 ELSE CHOOSE i \in live : \A j \in live : i <= j


\* ------------------------------------------------------------------ state
VARIABLES
    state,          \* MockTransport.state
    listeners,      \* MockTransport.listeners, in insertion order
    connectTimer,   \* MockTransport.connectTimer: 0 (undefined) or a handle
    timers,         \* the handles of the timers that are scheduled
    stack,          \* the call stack of the running task
    store,          \* the state object held by useAppStore
    invoked,        \* per listener: one of its unsubscribe capabilities was invoked
    nOps,           \* calls made from inside callbacks in the running task
    sent,           \* the snapshots update() made in the running task
    log,            \* per listener, which of them it was handed, in order
    subscribed,     \* per listener: subscribed, and not unsubscribed since
    event,          \* the step taken last
    connHist,       \* the last connect / disconnect, while nothing followed
    toggled         \* the store toggles made in a row, one or two

vars == << state, listeners, connectTimer, timers, stack, store, invoked, nOps,
           sent, log, subscribed, event, connHist, toggled >>

\* A step: its kind, a name or a number it was given, the snapshot it handed
\* to a listener (NoSnap when it handed none).
NoSnap == [connState |-> "none"]

Ev(k, s, n, snap) == [kind |-> k, s |-> s, n |-> n, snap |-> snap]

NoToggle == [kind |-> "none", orig |-> FALSE, n |-> 0]

EmptyLog == [l \in AllListeners |-> << >>]

\* ------------------------------------------------------------ call stack
Top == stack[Len(stack)]

\* members: the listeners registered when the pass began.
PassFrame(snap, tail, id, members) ==
    [kind |-> "pass", snap |-> snap, idx |-> 1, running |-> None,
     tail |-> tail, id |-> id, l |-> None, n |-> 0,
     visited |-> {}, members |-> members]

SubFrame(l, snap) ==
    [kind |-> "sub", snap |-> snap, idx |-> 0, running |-> l,
     tail |-> "none", id |-> 0, l |-> l, n |-> 1,
     visited |-> {}, members |-> {}]

\* A forEach over the listeners is in progress somewhere on the stack.
Iterating(stk) == \E i \in DOMAIN stk : stk[i].kind = "pass"

\* Every subscribe(l) call in progress has seen l invoked once more.
CountInvocation(stk, l) ==
    [i \in DOMAIN stk |->
        IF stk[i].kind = "sub" /\ stk[i].l = l
        THEN [stk[i] EXCEPT !.n = @ + 1] ELSE stk[i]]

TopLevel == stack = << >>

\* A callback that calls the transport is running and may make a call.
InCallback ==
    /\ stack # << >>
    /\ Top.running \in Listeners
    /\ nOps < MaxNested

CanCall == TopLevel \/ InCallback

Counted == IF TopLevel THEN nOps ELSE nOps + 1

\* ------------------------------------------------------------------ timer
\* A clearTimeout that cancels nothing.
clearTimeout_none(ts, h) == ts

clearTimeout(ts, h) == ts \ {h}

NewTimer(ts) ==
    IF \E i \in 1..MaxTimers : i \notin ts
    THEN CHOOSE i \in 1..MaxTimers : i \notin ts /\ \A j \in 1..(i - 1) : j \in ts
    ELSE MaxTimers

\* ------------------------------------------------------ command payloads
\* connect() that returns early while connecting instead of while connected.
connectNoop_connecting(st) == st.connState = "connecting"

connectNoop(st) == st.connState = "connected"

\* connect() that forgets the server of its params.
connectPartial_noServer(s) == [connState |-> "connecting"]

connectPartial(s) == [connState |-> "connecting", currentServer |-> s]

\* A timer callback that reports a failed attempt.
timerPartial_error == [connState |-> "error"]

\* A timer callback that emits the state of the attempt once more.
timerPartial_connecting == [connState |-> "connecting"]

timerPartial == [connState |-> "connected"]

\* A disconnect() that also forgets the server.
disconnectPartial_reset ==
    [connState |-> "disconnected", currentServer |-> Undefined]

disconnectPartial == [connState |-> "disconnected"]

\* joinChannel() that leaves the users alone.
joinChannel_aggregateOnly(st, channelId) ==
    [currentChannelId |-> channelId, users |-> st.users]

joinChannel(st, channelId) ==
    [currentChannelId |-> channelId,
     users |-> [i \in DOMAIN st.users |->
                  IF st.users[i].id = 1
                  THEN [st.users[i] EXCEPT !.channelId = channelId]
                  ELSE st.users[i]]]

\* An updateMe in which deafening also mutes.
updateMe_deafenMutes(st, partial) ==
    LET p == IF "deafened" \in DOMAIN partial /\ partial.deafened
             THEN [muted |-> TRUE, deafened |-> TRUE] ELSE partial
        me == Merge(st.me, p)
    IN [me |-> me,
        users |-> [i \in DOMAIN st.users |->
                     IF st.users[i].id = 1
                     THEN [st.users[i] EXCEPT !.muted = Flag(me.muted),
                                              !.deafened = Flag(me.deafened)]
                     ELSE st.users[i]]]

updateMe(st, partial) ==
    LET me == Merge(st.me, partial)
    IN [me |-> me,
        users |-> [i \in DOMAIN st.users |->
                     IF st.users[i].id = 1
                     THEN [st.users[i] EXCEPT !.muted = Flag(me.muted),
                                              !.deafened = Flag(me.deafened)]
                     ELSE st.users[i]]]

\* toggleMute / toggleDeafen: the negation of what the store shows.
\* A toggle that passes on what the store shows.
toggleArg_same(shown) == shown

toggleArg(shown) == ~shown

\* set(state) of zustand: Object.assign({}, store, state).
\* A set() whose arguments are spread in the wrong order.
storeSet_keepOld(st, snap) == Merge(snap, st)

storeSet(st, snap) == Merge(st, snap)


\* -------------------------------------------------------------- histories
\* connHist: a server s after a connect(s) that was not a no-op, "disc"
\* after a disconnect() made while connecting, until another command.
HistAfterConnect(s) == IF connectNoop(state) THEN connHist ELSE s

HistAfterDisconnect ==
    IF state.connState = "connecting" \/ connHist = "disc" THEN "disc" ELSE "none"

HistAfterOther == IF connHist \in Servers THEN "none" ELSE connHist

\* toggled: which toggle the UI made last, the value the store showed before
\* the first of the row, and whether the row has one or two calls so far.
\* Any other command ends the row.
Toggled(kind, shown) ==
    IF toggled.kind = kind /\ toggled.n = 1
    THEN [toggled EXCEPT !.n = 2]
    ELSE [kind |-> kind, orig |-> shown, n |-> 1]

\* ---------------------------------------------------------------- update
\* update(partial): the new state, then a pass over the listeners with one
\* snapshot.  tail names what the caller still does once update returns.
update(partial, tail) ==
    /\ state' = Merge(state, partial)
    /\ stack' = Append(stack,
                       PassFrame(snapshot(state'), tail, Len(sent) + 1,
                                 Registered(listeners)))
    /\ sent' = Append(sent, snapshot(state'))
    /\ nOps' = Counted

\* A callback is one of two kinds.  One that calls nothing runs and returns
\* in one step.  One that calls the transport (calls = TRUE) stays on the
\* stack as running until it returns; the store's callback, which only
\* calls set(state), is of the first kind.
MayCall(l, n) == l \in Listeners /\ n < MaxNested

\* The walk calls the next listener with the snapshot of its pass.
Deliver(calls) ==
    /\ stack # << >>
    /\ Top.kind = "pass"
    /\ Top.running = None
    /\ LET j == NextIdx(listeners, Top.idx)
       IN /\ j # 0
          /\ calls => MayCall(listeners[j], nOps)
          /\ LET l == listeners[j]
                 f == [Top EXCEPT !.idx = j + 1,
                                  !.running = IF calls THEN l ELSE None,
                                  !.visited = @ \cup {l}]
             IN /\ stack' = CountInvocation(
                              [stack EXCEPT ![Len(stack)] = f], l)
                /\ log' = [log EXCEPT ![l] =
                              Append(@, Top.id)]
                /\ store' = IF l = StoreListener
                            THEN storeSet(store, Top.snap) ELSE store
                /\ event' = Ev("deliver", "", l, Top.snap)
    /\ UNCHANGED << state, listeners, connectTimer, timers, invoked, nOps,
                    sent, subscribed, connHist, toggled >>

\* What is left of the task once the top frame is gone.
Pop(ls) ==
    LET stk == SubSeq(stack, 1, Len(stack) - 1)
    IN /\ stack' = stk
       /\ listeners' = IF Iterating(stk) THEN ls ELSE Compact(ls)
       /\ nOps' = IF stk = << >> THEN 0 ELSE nOps
       /\ sent' = IF stk = << >> THEN << >> ELSE sent
       /\ log' = IF stk = << >> THEN EmptyLog ELSE log

\* The running callback returns to the walk that called it.
Return ==
    /\ stack # << >>
    /\ Top.kind = "pass"
    /\ Top.running # None
    /\ stack' = [stack EXCEPT ![Len(stack)].running = None]
    /\ event' = Ev("return", "", 0, NoSnap)
    /\ UNCHANGED << state, listeners, connectTimer, timers, store, invoked,
                    nOps, sent, log, subscribed, connHist, toggled >>

\* The immediate callback returns and subscribe() returns the capability.
SubscribeReturn ==
    /\ stack # << >>
    /\ Top.kind = "sub"
    /\ Pop(listeners)
    /\ event' = Ev("return", "", 0, NoSnap)
    /\ UNCHANGED << state, connectTimer, timers, store, invoked, subscribed,
                    connHist, toggled >>

\* The walk is over: update() returns, and connect() goes on to its timer.
PassEnd ==
    /\ stack # << >>
    /\ Top.kind = "pass"
    /\ Top.running = None
    /\ NextIdx(listeners, Top.idx) = 0
    /\ Pop(listeners)
    /\ IF Top.tail = "connect"
       THEN LET ts == IF connectTimer # 0
                      THEN clearTimeout(timers, connectTimer) ELSE timers
                t == NewTimer(ts)
            IN /\ timers' = ts \cup {t}
               /\ connectTimer' = t
       ELSE UNCHANGED << timers, connectTimer >>
    /\ event' = Ev("return", "", 0, NoSnap)
    /\ UNCHANGED << state, store, invoked, subscribed, connHist, toggled >>

\* ---------------------------------------------------------------- commands
\* The snapshot subscribe() hands to the new listener.
subscribeSnapshot(st) == snapshot(st)

subscribe(l, calls) ==
    /\ CanCall
    /\ calls => MayCall(l, Counted)
    /\ listeners' = SetAdd(listeners, l)
    /\ stack' = IF calls
                THEN Append(CountInvocation(stack, l),
                            SubFrame(l, subscribeSnapshot(state)))
                ELSE CountInvocation(stack, l)
    /\ nOps' = Counted
    /\ log' = IF SetHas(listeners, l) THEN log ELSE EmptyLog
    /\ subscribed' = [subscribed EXCEPT ![l] = TRUE]
    /\ event' = Ev("subscribe", IF calls THEN "calls" ELSE "", l,
                   subscribeSnapshot(state))
    /\ UNCHANGED << state, connectTimer, timers, store, invoked, sent,
                    connHist, toggled >>

\* A capability returned by subscribe(l) is invoked.  again: it is one that
\* was invoked before.  Otherwise it is the one of the subscription in
\* force, which exists once that subscribe(l) call has returned.
HasCapability(l) ==
    /\ SetHas(listeners, l)
    /\ \A i \in DOMAIN stack : ~(stack[i].kind = "sub" /\ stack[i].l = l)

unsubscribe(l, again) ==
    /\ CanCall
    /\ IF again THEN invoked[l] ELSE HasCapability(l)
    /\ listeners' = SetDelete(listeners, l, Iterating(stack))
    /\ invoked' = [invoked EXCEPT ![l] = TRUE]
    /\ nOps' = Counted
    /\ log' = IF SetHas(listeners, l) THEN EmptyLog ELSE log
    /\ subscribed' = [subscribed EXCEPT ![l] = FALSE]
    /\ event' = Ev(IF again THEN "unsubscribeAgain" ELSE "unsubscribe",
                   "", 0, NoSnap)
    /\ UNCHANGED << state, connectTimer, timers, stack, store, sent,
                    connHist, toggled >>

connect(s) ==
    /\ CanCall
    /\ event' = Ev("connect", s, 0, NoSnap)
    /\ connHist' = HistAfterConnect(s)
    /\ toggled' = NoToggle
    /\ IF connectNoop(state)
       THEN /\ nOps' = Counted
            /\ UNCHANGED << state, stack, sent >>
       ELSE update(connectPartial(s), "connect")
    /\ UNCHANGED << listeners, connectTimer, timers, store, invoked, log,
                    subscribed >>

disconnect ==
    /\ CanCall
    /\ event' = Ev("disconnect", "", 0, NoSnap)
    /\ connHist' = HistAfterDisconnect
    /\ toggled' = NoToggle
    /\ timers' = IF connectTimer # 0
                 THEN clearTimeout(timers, connectTimer) ELSE timers
    /\ update(disconnectPartial, "none")
    /\ UNCHANGED << listeners, connectTimer, store, invoked, log, subscribed >>

\* joinChannel(channelId) of the transport, selectChannel of the store.
selectChannel(channelId) ==
    /\ CanCall
    /\ event' = Ev("joinChannel", "", channelId, NoSnap)
    /\ connHist' = HistAfterOther
    /\ toggled' = NoToggle
    /\ update(joinChannel(state, channelId), "none")
    /\ UNCHANGED << listeners, connectTimer, timers, store, invoked, log,
                    subscribed >>

setMute(muted) ==
    /\ CanCall
    /\ event' = Ev("setMute", Flag(muted), 0, NoSnap)
    /\ connHist' = HistAfterOther
    /\ toggled' = NoToggle
    /\ update(updateMe(state, [muted |-> muted]), "none")
    /\ UNCHANGED << listeners, connectTimer, timers, store, invoked, log,
                    subscribed >>

setDeafen(deafened) ==
    /\ CanCall
    /\ event' = Ev("setDeafen", Flag(deafened), 0, NoSnap)
    /\ connHist' = HistAfterOther
    /\ toggled' = NoToggle
    /\ update(updateMe(state, [deafened |-> deafened]), "none")
    /\ UNCHANGED << listeners, connectTimer, timers, store, invoked, log,
                    subscribed >>

\* toggleMute / toggleDeafen of the store: handlers of the UI, which run as
\* tasks of their own.
toggleMute ==
    /\ TopLevel
    /\ event' = Ev("toggleMute", "", 0, NoSnap)
    /\ connHist' = HistAfterOther
    /\ toggled' = Toggled("mute", store.me.muted)
    /\ update(updateMe(state, [muted |-> toggleArg(store.me.muted)]), "none")
    /\ UNCHANGED << listeners, connectTimer, timers, store, invoked, log,
                    subscribed >>

toggleDeafen ==
    /\ TopLevel
    /\ event' = Ev("toggleDeafen", "", 0, NoSnap)
    /\ connHist' = HistAfterOther
    /\ toggled' = Toggled("deafen", store.me.deafened)
    /\ update(updateMe(state, [deafened |-> toggleArg(store.me.deafened)]),
              "none")
    /\ UNCHANGED << listeners, connectTimer, timers, store, invoked, log,
                    subscribed >>

\* The callback given to setTimeout runs as a task of its own.
TimerFires(t) ==
    /\ TopLevel
    /\ t \in timers
    /\ timers' = timers \ {t}
    /\ event' = Ev("timer", "", t, NoSnap)
    /\ update(timerPartial, "none")
    /\ UNCHANGED << listeners, connectTimer, store, invoked, log, subscribed,
                    connHist, toggled >>

\* ---------------------------------------------------------- specification
\* After the module of the store has loaded: the transport is constructed,
\* the store has read getState() and its callback is subscribed.
Init ==
    /\ state = InitialState
    /\ listeners = << StoreListener >>
    /\ connectTimer = 0
    /\ timers = {}
    /\ stack = << >>
    /\ store = storeSet(snapshot(InitialState), snapshot(InitialState))
    /\ invoked = [l \in Listeners |-> FALSE]
    /\ nOps = 0
    /\ sent = << >>
    /\ log = EmptyLog
    /\ subscribed = [l \in Listeners |-> FALSE]
    /\ event = Ev("init", "", 0, NoSnap)
    /\ connHist = "none"
    /\ toggled = NoToggle

Next ==
    \/ \E s \in Servers : connect(s)
    \/ disconnect
    \/ \E c \in ChannelArgs : selectChannel(c)
    \/ \E m \in BOOLEAN : setMute(m)
    \/ \E d \in BOOLEAN : setDeafen(d)
    \/ toggleMute
    \/ toggleDeafen
    \/ \E l \in Listeners, calls \in BOOLEAN : subscribe(l, calls)
    \/ \E l \in Listeners, again \in BOOLEAN : unsubscribe(l, again)
    \/ \E t \in timers : TimerFires(t)
    \/ \E calls \in BOOLEAN : Deliver(calls)
    \/ Return
    \/ SubscribeReturn
    \/ PassEnd

Spec == Init /\ [][Next]_vars

\* What the event loop guarantees: the running task runs to its end (every
\* callback and every walk is finite), and a timer that is due gets its turn
\* between two tasks.
Finish ==
    \/ \E calls \in BOOLEAN : Deliver(calls)
    \/ Return
    \/ SubscribeReturn
    \/ PassEnd

Timeout == \E t \in timers : TimerFires(t)

\* The calls that read or write the connection and the listeners; the other
\* commands touch neither connState nor the timer.
ConnNext ==
    \/ \E s \in Servers : connect(s)
    \/ disconnect
    \/ \E l \in Listeners, calls \in BOOLEAN : subscribe(l, calls)
    \/ \E l \in Listeners, again \in BOOLEAN : unsubscribe(l, again)
    \/ Timeout
    \/ Finish

FairSpec ==
    Init /\ [][ConnNext]_vars /\ WF_vars(Finish) /\ SF_vars(Timeout)


\* ================================================================= claims
SelfUser(snap) == CHOOSE u \in {snap.users[i] : i \in DOMAIN snap.users} : u.id = 1

\* The step taken last handed event.snap to the listener event.n.
Handed == event.kind \in {"deliver", "subscribe"}

\* Every snapshot in sight: what getState() returns now, what update() is
\* handing out, what the last step handed to a listener.
Snapshots ==
    {snapshot(state)} \cup {stack[i].snap : i \in DOMAIN stack}
        \cup (IF Handed THEN {event.snap} ELSE {})

\* ----------------------------------------------------------------- C1
\* C1: after disconnect() is called while a connect attempt is pending,
\* connState is disconnected and stays disconnected until connect() is
\* called again: the earlier connect never completes into connected.
C1_DisconnectCancelsPendingConnect ==
    connHist = "disc" => state.connState = "disconnected"

\* ----------------------------------------------------------------- C2
\* C2: connect(params) called while connState is connected changes nothing:
\* no field of the state, no timer, no pass over the listeners.
C2_ConnectWhileConnectedIsNoop ==
    [][ (event'.kind = "connect" /\ state.connState = "connected")
          => UNCHANGED << state, listeners, connectTimer, timers, stack,
                          store, log, sent >> ]_vars

C2_Witness == event.kind = "connect" /\ state.connState = "connected"

\* ----------------------------------------------------------------- C3
\* C3: connect({server: s}) made while not connected shows connecting / s
\* through getState() at once and hands that snapshot to every listener
\* before it returns; with no other command before the timer fires, the
\* snapshot the timer emits has connState connected and currentServer s.
C3_ConnectStep ==
    (event'.kind = "connect" /\ state.connState # "connected")
      => /\ state'.connState = "connecting"
         /\ state'.currentServer = event'.s
         /\ stack'[Len(stack')].snap = snapshot(state')

C3_ConnectReturns ==
    (stack # << >> /\ Top.kind = "pass" /\ Top.tail = "connect"
       /\ Len(stack') < Len(stack))
      => /\ Registered(listeners) \subseteq Top.visited
         /\ Top.snap.connState = "connecting"

C3_TimerStep ==
    (event'.kind = "timer" /\ connHist \in Servers)
      => /\ state'.connState = "connected"
         /\ state'.currentServer = connHist
         /\ stack'[Len(stack')].snap = snapshot(state')

C3_Pending ==
    (connHist \in Servers /\ TopLevel)
      => /\ state.currentServer = connHist
         /\ \/ state.connState = "connecting" /\ timers # {}
            \/ state.connState = "connected" /\ timers = {}

\* C3, all of it: the connect step, the pass that ends before connect
\* returns, the timer step, and what holds between the two.
C3_ConnectThenConnected ==
    /\ [][C3_ConnectStep /\ C3_ConnectReturns /\ C3_TimerStep]_vars
    /\ []C3_Pending

C3_Witness ==
    /\ event.kind = "deliver"
    /\ connHist \in Servers
    /\ event.snap.connState = "connected"
    /\ event.snap.currentServer = connHist

\* ----------------------------------------------------------------- C4
\* C4: every subscribe(listener) call hands the listener a snapshot equal to
\* getState() at that moment, and between the call and its return the
\* listener is invoked exactly once.
C4_ImmediateSnapshotOnce ==
    /\ event.kind = "subscribe" => event.snap = snapshot(state)
    /\ \A i \in DOMAIN stack : stack[i].kind = "sub" => stack[i].n = 1

\* ----------------------------------------------------------------- C5
\* C5: a listener whose unsubscribe capability has been invoked is not
\* invoked by any pass again (until it is subscribed anew), also when the
\* capability is invoked in the middle of a pass that has not reached it.
C5_NoCallAfterUnsubscribe ==
    (event.kind = "deliver" /\ event.n \in Listeners) => subscribed[event.n]

\* A callback of a pass has just deleted an entry the pass had not reached.
C5_Witness ==
    /\ stack # << >>
    /\ Top.kind = "pass"
    /\ Top.running \in Listeners
    /\ event.kind = "unsubscribe"
    /\ \E i \in DOMAIN listeners : i >= Top.idx /\ listeners[i] = Empty

\* ----------------------------------------------------------------- C6
\* C6: in every snapshot currentChannelId is the channelId of the self-user,
\* and the snapshot joinChannel(c) emits shows c in both.
C6_ChannelInStep ==
    /\ \A sn \in Snapshots : sn.currentChannelId = SelfUser(sn).channelId
    /\ store.currentChannelId = SelfUser(store).channelId
    /\ event.kind = "joinChannel"
         => /\ Top.snap.currentChannelId = event.n
            /\ SelfUser(Top.snap).channelId = event.n

C6_Witness ==
    /\ event.kind = "deliver"
    /\ event.snap.currentChannelId \in ChannelArgs
    /\ event.snap.connState = "connected"

\* ----------------------------------------------------------------- C7
Mirrors(sn) ==
    /\ SelfUser(sn).muted = Flag(sn.me.muted)
    /\ SelfUser(sn).deafened = Flag(sn.me.deafened)

\* C7: in every snapshot handed to a listener, by subscribe or by a pass,
\* the muted and the deafened flag of the self-user equal me.muted and
\* me.deafened.
C7_FlagsMirrorMe == Handed => Mirrors(event.snap)

\* ----------------------------------------------------------------- C8
\* C8: after one store toggle has completed the store shows the negation of
\* what it showed before, after two in a row it shows the same again; for
\* toggleMute and me.muted as for toggleDeafen and me.deafened.
Expected == IF toggled.n = 1 THEN ~toggled.orig ELSE toggled.orig

C8_ToggleTwice ==
    TopLevel =>
      /\ toggled.kind = "mute"
           => store.me.muted = Expected /\ state.me.muted = Expected
      /\ toggled.kind = "deafen"
           => store.me.deafened = Expected /\ state.me.deafened = Expected

C8_Witness ==
    /\ TopLevel
    /\ toggled.kind = "deafen"
    /\ toggled.n = 2
    /\ toggled.orig
    /\ state.connState = "connecting"

\* ----------------------------------------------------------------- C9
\* C9: two listeners that are both subscribed are handed the snapshots of
\* the update() calls in the same order: no two different snapshots reach
\* one listener in one order and the other listener in the other order.
Inverted(a, b) ==
    \E i, j \in DOMAIN log[a], k, m \in DOMAIN log[b] :
        /\ i < j
        /\ k < m
        /\ log[a][i] = log[b][m]
        /\ log[a][j] = log[b][k]
        /\ sent[log[a][i]] # sent[log[a][j]]

C9_SameOrderForAll ==
    \A a, b \in Registered(listeners) : ~Inverted(a, b)

\* ----------------------------------------------------------------- C10
\* C10: no listener is invoked while an earlier invocation of the same
\* listener has not returned.
C10_NoOverlappingDelivery ==
    Handed =>
      \A i \in DOMAIN stack :
          stack[i].running = event.n
            => i = Len(stack) /\ (event.kind = "deliver" \/ event.s = "calls")

\* ----------------------------------------------------------------- C11
\* C11: the transport does not stay in connecting for ever: from every state
\* with connState connecting, as long as the running task finishes and a
\* pending timer gets to fire, connState becomes connected or disconnected,
\* or connect is called anew.
C11_Settled ==
    \/ state.connState \in {"connected", "disconnected"}
    \/ event.kind = "connect"

C11_NeverConnectingForever ==
    (state.connState = "connecting" /\ ~C11_Settled) ~> C11_Settled

C11_Witness ==
    /\ state.connState = "connecting"
    /\ event.kind = "subscribe"
    /\ TopLevel
    /\ timers # {}

\* ----------------------------------------------------------------- C12
\* C12: invoking an unsubscribe capability that was invoked before changes
\* nothing: the listeners registered after the call are the listeners
\* registered before it, also when the same function was subscribed anew
\* in between.
C12_RepeatedUnsubscribeIsNoop ==
    [][ event'.kind = "unsubscribeAgain"
          => Registered(listeners') = Registered(listeners) ]_vars

\* ----------------------------------------------------------------- C13
\* C13: once the store is constructed, and whenever a command or a timer
\* firing has completed, the connState, currentServer, currentChannelId,
\* me, channels and users the store shows are those of getState().
C13_StoreIsLatestSnapshot == TopLevel => store = snapshot(state)

C13_Witness ==
    /\ TopLevel
    /\ event.kind = "return"
    /\ store.connState = "connected"
    /\ store.currentServer = "b"
    /\ store.currentChannelId \in ChannelArgs
    /\ store.me.deafened

\* ----------------------------------------------------------------- C14
\* C14: at most one timer is pending at any time.  A connect() made while
\* an earlier one is pending leaves one timer when it returns, and the
\* timer, when it fires, leaves none and emits connected with the server of
\* the latest connect: one connected snapshot for the whole sequence.
C14_ConnectReturns ==
    (stack # << >> /\ Top.kind = "pass" /\ Top.tail = "connect"
       /\ Len(stack') < Len(stack))
      => timers' = {connectTimer'}

C14_TimerStep ==
    event'.kind = "timer"
      => /\ timers' = {}
         /\ stack'[Len(stack')].snap.connState = "connected"
         /\ connHist \in Servers
              => stack'[Len(stack')].snap.currentServer = connHist

C14_OneTimer ==
    /\ [][C14_ConnectReturns /\ C14_TimerStep]_vars
    /\ [](Cardinality(timers) <= 1)

\* connect({server: "b"}) has just been called while the store still shows
\* the pending attempt for "a".
C14_Witness ==
    /\ event.kind = "connect"
    /\ event.s = "b"
    /\ store.connState = "connecting"
    /\ store.currentServer = "a"
    /\ timers # {}

\* ----------------------------------------------------------------- C15
\* C15: disconnect() sets connState to disconnected, leaves no timer
\* pending and keeps currentServer, currentChannelId, me, channels and
\* users; called in a state that is disconnected already it leaves the
\* state as it is.
C15_DisconnectStep ==
    event'.kind = "disconnect"
      => /\ state' = [state EXCEPT !.connState = "disconnected"]
         /\ timers' = {}
         /\ stack'[Len(stack')].snap = snapshot(state')
         /\ state.connState = "disconnected" => state' = state

C15_DisconnectIdempotent == [][C15_DisconnectStep]_vars

\* disconnect() has just been called during a pending connect().
C15_Witness ==
    /\ event.kind = "disconnect"
    /\ connHist = "disc"
    /\ store.connState = "connecting"
    /\ state.currentServer = "a"
    /\ state.currentChannelId \in ChannelArgs
    /\ state.me.muted

\* ----------------------------------------------------------------- C16
\* C16: in every snapshot the channelId of every user, the self-user
\* included, is the id of one of the channels of that snapshot.
ChannelIds(sn) == {sn.channels[i].id : i \in DOMAIN sn.channels}

C16_ChannelExists ==
    \A sn \in Snapshots :
        \A i \in DOMAIN sn.users : sn.users[i].channelId \in ChannelIds(sn)

\* ----------------------------------------------------------------- C17
\* C17: setMute, setDeafen and joinChannel change neither connState nor
\* currentServer nor channels nor the timer; setMute leaves me.deafened,
\* setDeafen leaves me.muted, both leave currentChannelId; joinChannel
\* leaves me; none of them changes a user other than the self-user.
OthersKept ==
    /\ Len(state'.users) = Len(state.users)
    /\ \A i \in DOMAIN state.users :
          state.users[i].id # 1 => state'.users[i] = state.users[i]

ConnectionKept ==
    /\ state'.connState = state.connState
    /\ state'.currentServer = state.currentServer
    /\ state'.channels = state.channels
    /\ timers' = timers
    /\ connectTimer' = connectTimer

C17_Step ==
    /\ event'.kind \in {"setMute", "toggleMute"}
         => /\ ConnectionKept
            /\ OthersKept
            /\ state'.me.deafened = state.me.deafened
            /\ state'.currentChannelId = state.currentChannelId
    /\ event'.kind \in {"setDeafen", "toggleDeafen"}
         => /\ ConnectionKept
            /\ OthersKept
            /\ state'.me.muted = state.me.muted
            /\ state'.currentChannelId = state.currentChannelId
    /\ event'.kind = "joinChannel"
         => /\ ConnectionKept
            /\ OthersKept
            /\ state'.me = state.me

C17_CommandsKeepConnection == [][C17_Step]_vars

\* setDeafen(true) has just been called, not muted, during a pending
\* connect().
C17_Witness ==
    /\ event.kind = "setDeafen"
    /\ event.s = "true"
    /\ state.me.deafened
    /\ ~state.me.muted
    /\ state.connState = "connecting"
    /\ timers # {}

\* ----------------------------------------------------------------- C18
\* C18: a pass invokes only listeners that were registered when it began: a
\* listener subscribed from inside a callback of the pass is not invoked by
\* that pass.
C18_AddedListenerNotInPass ==
    event.kind = "deliver" => event.n \in Top.members

\* ----------------------------------------------------------------- C19
\* C19: a timer is pending only while connState is connecting; once the
\* connect() call has returned, connecting implies that a timer is pending;
\* and connState becomes connected only from connecting.
C19_TimerOnlyWhileConnecting ==
    /\ timers # {} => state.connState = "connecting"
    /\ (TopLevel /\ state.connState = "connecting") => timers # {}

C19_ConnectedFromConnecting ==
    (state'.connState = "connected" /\ state.connState # "connected")
      => state.connState = "connecting"

C19_TimerIffConnecting ==
    /\ []C19_TimerOnlyWhileConnecting
    /\ [][C19_ConnectedFromConnecting]_vars

\* ----------------------------------------------------------------- C20
\* C20: connState is never error, and while it is connecting or connected
\* currentServer is the server given to the latest connect() that was not a
\* no-op: such a connect() sets it, and no other step changes it.
C20_State ==
    /\ state.connState \in {"disconnected", "connecting", "connected"}
    /\ state.connState \in {"connecting", "connected"}
         => state.currentServer \in Servers

C20_ServerStep ==
    IF event'.kind = "connect" /\ state.connState # "connected"
    THEN state'.currentServer = event'.s
    ELSE state'.currentServer = state.currentServer

C20_NeverErrorServerOfLastConnect ==
    /\ []C20_State
    /\ [][C20_ServerStep]_vars

\* The timer of connect({server: "b"}) has just fired, other commands
\* having been made since.
C20_Witness ==
    /\ event.kind = "timer"
    /\ state.connState = "connected"
    /\ state.currentServer = "b"
    /\ connHist = "none"
    /\ state.me.muted

====
